---------------------------- MODULE Spec2Model ----------------------------
(***************************************************************************)
(* Genetic algorithms of sausheong/ga: four programs with the same main    *)
(* loop (getBest, convergence test, createPool, naturalSelection).         *)
(*   "string"    the Shakespeare quote, genome = bytes, fitness = matches  *)
(*   "pixel"     monalisa/main.go, genome = the Pix bytes of an image      *)
(*   "triangles" genome = list of triangles drawn onto an image            *)
(*   "circles"   genome = list of circles drawn onto an image              *)
(* One behaviour runs one program with one configuration.                  *)
(***************************************************************************)
EXTENDS Integers, Sequences, FiniteSets

VARIABLES
    variant,       \* which program runs
    MutationRate,  \* global var MutationRate, as a numerator over RateDen
    PoolSize,      \* global var PoolSize (unused by the string program)
    population,    \* main: population
    pool,          \* main: pool (<<>> while not in scope)
    bestOrganism,  \* main: bestOrganism / bestDNA (None before the first getBest)
    found,         \* main: found
    generation,    \* main: generation
    pc,            \* position in main
    err,           \* the run-time panic that ended the program, "" if none
    birth,         \* naturalSelection: the locals a, b and child of one
                   \* iteration, with the cut index and the child before
                   \* mutation (None outside the iteration)
    mem,           \* the memory behind the slices of naturalSelection: the
                   \* backing arrays and the addresses the slices hold (None
                   \* where the slices are followed by value)
    call           \* one call of squareDifference or diff: the function, its
                   \* arguments x and y and, once it has returned, its result
                   \* (None where the functions run inside calcFitness)

vars == <<variant, MutationRate, PoolSize, population, pool, bestOrganism,
          found, generation, pc, err, birth, mem, call>>

\* Number of organisms of a population (500 / 250 / 100 / 150 in the sources).
PopSize == 3

\* MutationRate and the draws of rand.Float64() are multiples of 1/RateDen.
RateDen == 2

\* The generations a run is followed for.
MaxGeneration == 2

\* The length of the pools one iteration of naturalSelection is applied to.
MaxPool == 2

None == [none |-> TRUE]

Variants == {"string", "pixel", "triangles", "circles"}
ImageVariants == {"pixel", "triangles", "circles"}
ShapeVariants == {"triangles", "circles"}

-----------------------------------------------------------------------------
(* Random sources.                                                         *)

\* rand.Intn(n): any integer of [0, n).
Intn(n) == 0 .. (n - 1)

\* rand.Float64(): a value of [0.0, 1.0), here the multiples of 1/RateDen.
Float64 == 0 .. (RateDen - 1)

\* The byte values the model explores in each program (a sample of 0..255;
\* all arithmetic is on the real byte values).
ByteSample(v) ==
    CASE v = "string" -> {32, 33}
      [] v = "pixel"  -> {0, 255}
      [] OTHER        -> {254}

\* rand.Read(pix): every byte is any value 0..255.
randRead(v) == (0 .. 255) \cap ByteSample(v)

-----------------------------------------------------------------------------
(* Targets.                                                                *)

\* string: target := []byte("To be or not to be, ..."), shortened to 2 bytes.
targetString == <<32, 33>>

\* image programs: target := load("./ml.png"), here the Pix of a 2-byte image.
targetImage == <<0, 255>>

target(v) == IF v = "string" THEN targetString ELSE targetImage

\* Number of shapes of an organism (NumTriangles = 150, NumCircles = 180).
NumShapes == 2

-----------------------------------------------------------------------------
(* uint64 arithmetic, on 8 limbs of 8 bits (least significant first), so   *)
(* that the wrap-around of squareDifference is computed, not assumed.      *)

\* uint64(x) for a byte x.
U64(x) == [i \in 0 .. 7 |-> IF i = 0 THEN x ELSE 0]

RECURSIVE SubLimbs_NoBorrow(_, _, _, _)
\* a subtraction that confines the wrap-around to the lowest limb (a uint8
\* subtraction widened afterwards), for comparison with SubLimbs
SubLimbs_NoBorrow(a, b, i, borrow) ==
    IF i > 7 THEN <<>>
    ELSE LET d == a[i] - b[i]
         IN  <<(d + 256) % 256>> \o SubLimbs_NoBorrow(a, b, i + 1, 0)

RECURSIVE SubLimbs(_, _, _, _)
\* a - b modulo 2^64: limbs i..7 of the difference, given the borrow into limb i.
SubLimbs(a, b, i, borrow) ==
    IF i > 7 THEN <<>>
    ELSE LET d == a[i] - b[i] - borrow
         IN  <<(d + 256) % 256>> \o SubLimbs(a, b, i + 1, IF d < 0 THEN 1 ELSE 0)

SubU64(a, b) == LET s == SubLimbs(a, b, 0, 0) IN [i \in 0 .. 7 |-> s[i + 1]]

RECURSIVE ColumnSum(_, _, _, _)
\* sum of a[i] * b[k - i] for i in from..k
ColumnSum(a, b, k, from) ==
    IF from > k THEN 0 ELSE a[from] * b[k - from] + ColumnSum(a, b, k, from + 1)

RECURSIVE MulLimbs(_, _, _, _)
\* a * b modulo 2^64: limbs k..7 of the product, given the carry into limb k.
MulLimbs(a, b, k, carry) ==
    IF k > 7 THEN <<>>
    ELSE LET t == ColumnSum(a, b, k, 0) + carry
         IN  <<t % 256>> \o MulLimbs(a, b, k + 1, t \div 256)

MulU64(a, b) == LET m == MulLimbs(a, b, 0, 0) IN [i \in 0 .. 7 |-> m[i + 1]]

\* int64(u) for a uint64 u below 2^31 (larger values do not occur for byte
\* inputs; they are reported as -1, which no claim about diff tolerates).
Int64OfU64(u) ==
    IF u[4] = 0 /\ u[5] = 0 /\ u[6] = 0 /\ u[7] = 0 /\ u[3] < 128
    THEN u[0] + 256 * u[1] + 65536 * u[2] + 16777216 * u[3]
    ELSE -1

\* func squareDifference(x, y uint8) uint64
squareDifference(x, y) ==
    LET d == SubU64(U64(x), U64(y))
    IN  MulU64(d, d)

RECURSIVE SqrtBetween(_, _, _)
\* the largest r in lo..hi with r * r <= d (lo * lo <= d is given)
SqrtBetween(d, lo, hi) ==
    IF lo >= hi THEN lo
    ELSE LET m == (lo + hi + 1) \div 2
         IN  IF m * m <= d THEN SqrtBetween(d, m, hi) ELSE SqrtBetween(d, lo, m - 1)

\* int64(math.Sqrt(float64(d))): the square root is exact to the last bit, so
\* for the sums of an image (below 2^31) truncation yields the integer root.
SqrtInt64(d) == SqrtBetween(d, 0, 46340)

\* the bytes of the images of the model: 0 (image.NewRGBA) and the samples
ImageBytes == {0} \cup ByteSample("pixel") \cup ByteSample("triangles")

\* int64(squareDifference(x, y)), computed once for the bytes of the model
SquareOf == [x \in ImageBytes, y \in ImageBytes |->
                Int64OfU64(squareDifference(x, y))]

RECURSIVE SumSquares(_, _, _, _)
\* the loop of diff: d += int64(squareDifference(a.Pix[i], b.Pix[i])) for the
\* indices lo..hi. The int64 sum of an image stays below 2^31, so the order
\* of the additions does not matter; the halves are summed separately, which
\* keeps the evaluation shallow for the 26,800 bytes of a full image.
SumSquares(a, b, lo, hi) ==
    IF lo > hi THEN 0
    ELSE IF lo = hi THEN SquareOf[a[lo], b[lo]]
    ELSE LET m == (lo + hi) \div 2
         IN  SumSquares(a, b, lo, m) + SumSquares(a, b, m + 1, hi)

\* func diff(a, b *image.RGBA) (d int64)
diff(a, b) == SqrtInt64(SumSquares(a, b, 1, Len(a)))

-----------------------------------------------------------------------------
(* Organisms.  string: [Gene, Fitness]; pixel: [DNA, Fitness] with DNA the *)
(* Pix bytes; triangles and circles: [DNA, Shapes, Fitness] with Shapes    *)
(* the field Triangles / Circles and DNA the image drawn from it.          *)
(* The float64 fitness of the string program, score / len(Gene), is kept   *)
(* as its numerator score: len(Gene) is the same for all organisms.        *)

\* createTriangle(w, h) / createCircle(w, h): a shape at a random place with a
\* random colour, every colour channel being uint8(rand.Intn(255)).
createShape(v) ==
    { [At |-> x + 1, Color |-> c] :
          x \in Intn(Len(targetImage)), c \in Intn(255) \cap ByteSample(v) }

RECURSIVE Paint(_, _, _)
\* the loop of draw: each shape in turn is filled onto the image
Paint(img, shapes, i) ==
    IF i > Len(shapes) THEN img
    ELSE Paint([img EXCEPT ![shapes[i].At] = shapes[i].Color], shapes, i + 1)

\* func draw(w int, h int, triangles []Triangle) *image.RGBA
\* image.NewRGBA starts with every byte 0.
draw(shapes) == Paint([i \in 1 .. Len(targetImage) |-> 0], shapes, 1)

\* the genome of an organism: the sequence crossover and mutate work on
Genome(v, o) ==
    CASE v = "string" -> o.Gene
      [] v = "pixel"  -> o.DNA
      [] OTHER        -> o.Shapes

\* the elements createDNA / createOrganism put at a position of a new genome
InitElements(v) ==
    CASE v = "string" -> {r + 32 : r \in Intn(95)} \cap ByteSample(v)
      [] v = "pixel"  -> randRead(v)
      [] OTHER        -> createShape(v)

\* the elements mutate writes at a position
MutateElements(v) ==
    CASE v = "string" -> {r + 32 : r \in Intn(95)} \cap ByteSample(v)
      [] v = "pixel"  -> Intn(255) \cap ByteSample(v)
      [] OTHER        -> createShape(v)

\* length of a genome: len(target), len(img.Pix), NumTriangles / NumCircles
GenomeLen(v) == IF v \in ShapeVariants THEN NumShapes ELSE Len(target(v))

RECURSIVE Score(_, _, _)
\* the loop of the string calcFitness: positions where Gene equals target
Score(gene, t, i) ==
    IF i > Len(gene) THEN 0
    ELSE (IF gene[i] = t[i] THEN 1 ELSE 0) + Score(gene, t, i + 1)

\* the string calcFitness with its loop started at position 1
calcFitness_SkipFirst(v, o) ==
    IF v = "string"
    THEN [o EXCEPT !.Fitness = Score(o.Gene, target(v), 2)]
    ELSE [o EXCEPT !.Fitness = diff(o.DNA, target(v))]

\* the image calcFitness with its first branch kept: Fitness 1 for distance 0
calcFitness_OneForZero(v, o) ==
    IF v = "string"
    THEN [o EXCEPT !.Fitness = Score(o.Gene, target(v), 1)]
    ELSE LET difference == diff(o.DNA, target(v))
         IN  IF difference = 0 THEN [o EXCEPT !.Fitness = 1]
             ELSE [o EXCEPT !.Fitness = difference]

\* func (d *DNA) calcFitness(target) / func (o *Organism) calcFitness(target),
\* for the target t
calcFitnessTo(v, o, t) ==
    IF v = "string"
    THEN [o EXCEPT !.Fitness = Score(o.Gene, t, 1)]
    ELSE LET difference == diff(o.DNA, t)
             o1 == IF difference = 0 THEN [o EXCEPT !.Fitness = 1] ELSE o
         IN  [o1 EXCEPT !.Fitness = difference]

\* calcFitness called with the target of main
calcFitness(v, o) == calcFitnessTo(v, o, target(v))

\* an organism with the given genome and Fitness 0, as crossover, createDNA
\* and createOrganism build it before calcFitness
NewOrganism(v, g) ==
    CASE v = "string" -> [Gene |-> g, Fitness |-> 0]
      [] v = "pixel"  -> [DNA |-> g, Fitness |-> 0]
      [] OTHER        -> [DNA |-> draw(g), Shapes |-> g, Fitness |-> 0]

\* func createDNA(target) / func createOrganism(target), for the genome drawn
createOrganism(v, g) == calcFitness(v, NewOrganism(v, g))

\* the organisms createOrganism can return
InitOrganisms(v) ==
    { createOrganism(v, g) : g \in [1 .. GenomeLen(v) -> InitElements(v)] }

\* crossover with the cut one position early: "i >= mid" for "i > mid"
crossover_CutEarly(v, d1, d2, mid) ==
    NewOrganism(v, [i \in 1 .. Len(Genome(v, d1)) |->
                       IF i - 1 >= mid THEN Genome(v, d1)[i] ELSE Genome(v, d2)[i]])

\* crossover that stops copying at the cut: the child ends at position mid
crossover_UpToCut(v, d1, d2, mid) ==
    NewOrganism(v, [i \in 1 .. (mid + 1) |-> Genome(v, d2)[i]])

\* crossover that copies the element at the cut for the elements behind it
crossover_FromCut(v, d1, d2, mid) ==
    NewOrganism(v, [i \in 1 .. Len(Genome(v, d1)) |->
                       IF i - 1 > mid THEN Genome(v, d1)[mid + 1]
                       ELSE Genome(v, d2)[i]])

\* crossover with the first mid elements from d1 and the rest from d2
crossover_FirstThenSecond(v, d1, d2, mid) ==
    NewOrganism(v, [i \in 1 .. Len(Genome(v, d1)) |->
                       IF i - 1 < mid THEN Genome(v, d1)[i] ELSE Genome(v, d2)[i]])

\* func crossover(d1, d2), for the value mid of rand.Intn(len): position i
\* (counted from 0) comes from d1 if i > mid, else from d2
crossover(v, d1, d2, mid) ==
    NewOrganism(v, [i \in 1 .. Len(Genome(v, d1)) |->
                       IF i - 1 > mid THEN Genome(v, d1)[i] ELSE Genome(v, d2)[i]])

\* mutate of the shape programs without the final d.DNA = draw(...)
mutate_NoRedraw(v, o, rate, draws, fresh) ==
    LET g == [i \in 1 .. Len(Genome(v, o)) |->
                 IF draws[i] < rate THEN fresh[i] ELSE Genome(v, o)[i]]
    IN  CASE v = "string" -> [o EXCEPT !.Gene = g]
          [] v = "pixel"  -> [o EXCEPT !.DNA = g]
          [] OTHER        -> [o EXCEPT !.Shapes = g]

\* mutate with "<=" for "<" in the test of the draw
mutate_AtOrBelow(v, o, rate, draws, fresh) ==
    LET g == [i \in 1 .. Len(Genome(v, o)) |->
                 IF draws[i] <= rate THEN fresh[i] ELSE Genome(v, o)[i]]
    IN  CASE v = "string" -> [o EXCEPT !.Gene = g]
          [] v = "pixel"  -> [o EXCEPT !.DNA = g]
          [] OTHER        -> [o EXCEPT !.Shapes = g, !.DNA = draw(g)]

\* func (d *DNA) mutate(), for the values draws[i] of rand.Float64() and the
\* elements fresh[i] generated where the draw is below the rate; the shape
\* programs draw the image again
mutate(v, o, rate, draws, fresh) ==
    LET g == [i \in 1 .. Len(Genome(v, o)) |->
                 IF draws[i] < rate THEN fresh[i] ELSE Genome(v, o)[i]]
    IN  CASE v = "string" -> [o EXCEPT !.Gene = g]
          [] v = "pixel"  -> [o EXCEPT !.DNA = g]
          [] OTHER        -> [o EXCEPT !.Shapes = g, !.DNA = draw(g)]

RECURSIVE getBestIndex(_, _, _, _)
\* the loop of getBest from position i on, with the locals best and index
getBestIndex(p, i, best, index) ==
    IF i > Len(p) THEN index
    ELSE IF p[i].Fitness > best
         THEN getBestIndex(p, i + 1, p[i].Fitness, i)
         ELSE getBestIndex(p, i + 1, best, index)

\* getBest without the update of index in the loop
getBest_First(p) == p[1]

\* getBest that returns an organism of the smallest Fitness
getBest_Smallest(p) ==
    p[CHOOSE i \in 1 .. Len(p) : \A j \in 1 .. Len(p) : p[i].Fitness <= p[j].Fitness]

\* func getBest(population) (the same code in the four programs)
getBest(p) == p[getBestIndex(p, 1, 0, 1)]

-----------------------------------------------------------------------------
(* createPool.                                                             *)

\* n copies of o, as the inner loop "for n := 0; n < num; n++" appends them
Copies(o, num) == [n \in 1 .. num |-> o]

\* int(x) for a float64 NaN is implementation-dependent in Go: amd64 yields
\* the smallest integer, arm64 yields 0.  MinInt stands for the smallest one.
MinInt == -2147483647
IntOfNaN == {MinInt, 0}

\* Scores s <= m of a gene of length len for which the float64 expression
\* (s/len) / (m/len) * 100 is just below the exact quotient (IEEE 754
\* double arithmetic), for genes of up to 7 bytes.
RoundedDown == {<<5, 3, 4>>}

\* num with the factor 10 for 100
numString_TimesTen(f, maxFitness, len, nan) ==
    IF maxFitness = 0 THEN nan ELSE (10 * f) \div maxFitness

\* num := int((population[i].Fitness / maxFitness) * 100), fitness f and
\* maxFitness being scores of genes of length len.  With maxFitness = 0 the
\* quotient 0/0 is NaN (maxFitness is the largest fitness, so f = 0 then).
numString(f, maxFitness, len, nan) ==
    IF maxFitness = 0 THEN nan
    ELSE ((100 * f) \div maxFitness)
             - (IF <<len, f, maxFitness>> \in RoundedDown THEN 1 ELSE 0)

RECURSIVE poolString(_, _, _, _, _)
\* the loop of the string createPool(population, target, maxFitness) from
\* position i on, for the target t
poolString(p, t, i, maxFitness, nan) ==
    IF i > Len(p) THEN <<>>
    ELSE LET o == calcFitnessTo("string", p[i], t)
         IN  Copies(o, numString(o.Fitness, maxFitness, Len(o.Gene), nan))
                 \o poolString(p, t, i + 1, maxFitness, nan)

RECURSIVE Insert_Unstable(_, _)
\* o put before the organisms whose Fitness is not smaller
Insert_Unstable(sorted, o) ==
    IF sorted = <<>> THEN <<o>>
    ELSE IF o.Fitness <= sorted[Len(sorted)].Fitness
         THEN Append(Insert_Unstable(SubSeq(sorted, 1, Len(sorted) - 1), o),
                     sorted[Len(sorted)])
         ELSE Append(sorted, o)

RECURSIVE Insert(_, _)
\* o put behind the last organism whose Fitness is not larger
Insert(sorted, o) ==
    IF sorted = <<>> THEN <<o>>
    ELSE IF o.Fitness < sorted[Len(sorted)].Fitness
         THEN Append(Insert(SubSeq(sorted, 1, Len(sorted) - 1), o),
                     sorted[Len(sorted)])
         ELSE Append(sorted, o)

RECURSIVE SortPrefix(_, _)
SortPrefix(p, n) == IF n = 0 THEN <<>> ELSE Insert(SortPrefix(p, n - 1), p[n])

\* sort.SliceStable(population, Fitness[i] < Fitness[j])
SliceStable(p) == SortPrefix(p, Len(p))

RECURSIVE poolTop_FromBest(_, _, _, _)
\* the loop of the image createPool with the difference taken from top[0]
poolTop_FromBest(top, i, poolSize, factor) ==
    IF i > Len(top) - 1 THEN <<>>
    ELSE Copies(top[i], (top[i].Fitness - top[1].Fitness) * factor)
             \o poolTop_FromBest(top, i + 1, poolSize, factor)

RECURSIVE poolTop(_, _, _, _)
\* the loop "for i := 0; i < len(top)-1; i++" of the image createPool, with
\* num := (top[PoolSize].Fitness - top[i].Fitness) * factor
poolTop(top, i, poolSize, factor) ==
    IF i > Len(top) - 1 THEN <<>>
    ELSE Copies(top[i], (top[poolSize + 1].Fitness - top[i].Fitness) * factor)
             \o poolTop(top, i + 1, poolSize, factor)

\* the slice expression with a bound one too strict
SliceInRange_BelowLen(p, poolSize) == poolSize + 1 < Len(p)

\* population[0 : PoolSize+1] is a run-time panic beyond the capacity
SliceInRange(p, poolSize) == poolSize + 1 <= Len(p)

\* the pixel createPool without the factor 10
createPoolPixel_Unscaled(sorted, poolSize) ==
    poolTop(SubSeq(sorted, 1, poolSize + 1), 1, poolSize, 1)

\* func createPool(population, target) of monalisa/main.go: no test for equal
\* fitness, ten copies per unit of difference
createPoolPixel(sorted, poolSize) ==
    poolTop(SubSeq(sorted, 1, poolSize + 1), 1, poolSize, 10)

\* the shape createPool without the test for equal fitness
createPoolShapes_NoEscape(sorted, poolSize) ==
    poolTop(SubSeq(sorted, 1, poolSize + 1), 1, poolSize, 1)

\* the shape createPool with "pool = top" for "pool = population"
createPoolShapes_PoolIsTop(sorted, poolSize) ==
    LET top == SubSeq(sorted, 1, poolSize + 1)
    IN  IF top[Len(top)].Fitness - top[1].Fitness = 0
        THEN top
        ELSE poolTop(top, 1, poolSize, 1)

\* func createPool(population, target) of the triangle and circle programs
createPoolShapes(sorted, poolSize) ==
    LET top == SubSeq(sorted, 1, poolSize + 1)
    IN  IF top[Len(top)].Fitness - top[1].Fitness = 0
        THEN sorted
        ELSE poolTop(top, 1, poolSize, 1)

\* func createPool, for a population already sorted (image programs)
createPool(v, sorted, poolSize) ==
    IF v = "pixel" THEN createPoolPixel(sorted, poolSize)
    ELSE createPoolShapes(sorted, poolSize)

-----------------------------------------------------------------------------
(* naturalSelection.                                                       *)

\* pool[r] for every value r of rand.Intn(len(pool))
Parents(pl) == {pl[r + 1] : r \in Intn(Len(pl))}

\* r1, r2 := rand.Intn(len(pool)), rand.Intn(len(pool)); a := pool[r1];
\* b := pool[r2]; child := crossover(a, b), for every outcome of the draws
Crossings(v, pl) ==
    UNION { { [a |-> a, b |-> b, mid |-> mid, crossed |-> crossover(v, a, b, mid)] :
                  mid \in Intn(Len(Genome(v, a))) } :
            a \in Parents(pl), b \in Parents(pl) }

\* child.mutate(), for every outcome of the draws
Mutations(v, crossed, rate) ==
    { mutate(v, crossed, rate, draws, fresh) :
          draws \in [1 .. Len(Genome(v, crossed)) -> Float64],
          fresh \in [1 .. Len(Genome(v, crossed)) -> MutateElements(v)] }

\* One iteration of the loop of naturalSelection: the parents, the cut index,
\* the child of crossover, the draws of mutate and the child after mutate and
\* calcFitness.
Births(v, pl, rate) ==
    UNION { { [a |-> x.a, b |-> x.b, mid |-> x.mid, crossed |-> x.crossed,
               draws |-> draws, fresh |-> fresh,
               child |-> calcFitness(v, mutate(v, x.crossed, rate, draws, fresh))] :
                  draws \in [1 .. Len(Genome(v, x.crossed)) -> Float64],
                  fresh \in [1 .. Len(Genome(v, x.crossed)) -> MutateElements(v)] } :
            x \in Crossings(v, pl) }

\* the organisms one iteration can store in next[i]
Children(v, pl, rate) ==
    UNION { { calcFitness(v, m) : m \in Mutations(v, crossed, rate) } :
            crossed \in {x.crossed : x \in Crossings(v, pl)} }

-----------------------------------------------------------------------------
(* main.                                                                   *)

\* FitnessLimit (7500 for images of 26,800 bytes), scaled to the 2-byte image
FitnessLimit == 255

\* the literal 5000 of the circle programs, scaled likewise
CircleLimit == 254

Limit(v) == IF v = "circles" THEN CircleLimit ELSE FitnessLimit

\* the test of main with "<=" for "<" in the image programs
Converged_AtLimit(v, best) ==
    IF v = "string" THEN best.Gene = target(v)
    ELSE best.Fitness <= Limit(v)

\* the test of main that sets found
Converged(v, best) ==
    IF v = "string" THEN best.Gene = target(v)
    ELSE best.Fitness < Limit(v)

\* func createPopulation(target): PopSize organisms, each from createOrganism
createPopulation(v) == [1 .. PopSize -> InitOrganisms(v)]

Init ==
    /\ variant \in Variants
    /\ MutationRate \in 0 .. RateDen
    /\ PoolSize \in (IF variant \in ImageVariants THEN 0 .. (PopSize + 1) ELSE {0})
    /\ \E p \in createPopulation(variant) : population = p \o <<>>
    /\ pool = <<>>
    /\ bestOrganism = None
    /\ found = FALSE
    /\ generation = 0
    /\ pc = "loop"
    /\ err = ""
    /\ birth = None
    /\ mem = None
    /\ call = None

\* for !found { generation++; bestOrganism := getBest(population)
GetBest ==
    /\ pc = "loop"
    /\ ~found
    /\ generation < MaxGeneration
    /\ generation' = generation + 1
    /\ bestOrganism' = getBest(population)
    /\ pc' = "check"
    /\ UNCHANGED <<call, mem, variant, MutationRate, PoolSize, population, pool, found,
                   err, birth>>

\* the test of main without its else: the pool is built all the same
CheckFound_NoElse ==
    /\ pc = "check"
    /\ Converged(variant, bestOrganism)
    /\ found' = TRUE
    /\ pc' = "createPool"
    /\ UNCHANGED <<call, mem, variant, MutationRate, PoolSize, population, pool,
                   bestOrganism, generation, err, birth>>

\* if <converged> { found = true }
CheckFound ==
    /\ pc = "check"
    /\ Converged(variant, bestOrganism)
    /\ found' = TRUE
    /\ pc' = "loop"
    /\ UNCHANGED <<call, mem, variant, MutationRate, PoolSize, population, pool,
                   bestOrganism, generation, err, birth>>

\* } else { ...
CheckNotFound ==
    /\ pc = "check"
    /\ ~Converged(variant, bestOrganism)
    /\ pc' = "createPool"
    /\ UNCHANGED <<call, mem, variant, MutationRate, PoolSize, population, pool,
                   bestOrganism, found, generation, err, birth>>

\* string: maxFitness := bestDNA.Fitness; pool := createPool(population,
\* target, maxFitness).  createPool stores the fitness it computes.
CreatePoolString ==
    /\ pc = "createPool"
    /\ variant = "string"
    /\ \E nan \in IntOfNaN :
           pool' = poolString(population, target(variant), 1,
                              bestOrganism.Fitness, nan)
    /\ population' = [i \in 1 .. Len(population) |->
                          calcFitness(variant, population[i])] \o <<>>
    /\ pc' = "naturalSelection"
    /\ UNCHANGED <<call, mem, variant, MutationRate, PoolSize, bestOrganism, found, generation, err, birth>>

\* images: pool := createPool(population, target).  The population is sorted
\* in place before the slice expression is evaluated.
CreatePoolImage ==
    /\ pc = "createPool"
    /\ variant \in ImageVariants
    /\ population' = SliceStable(population)
    /\ IF SliceInRange(population, PoolSize)
       THEN /\ pool' = createPool(variant, SliceStable(population), PoolSize)
            /\ pc' = "naturalSelection"
            /\ err' = err
       ELSE /\ pool' = pool
            /\ pc' = "panic"
            /\ err' = "slice bounds out of range"
    /\ UNCHANGED <<call, mem, variant, MutationRate, PoolSize, bestOrganism, found,
                   generation, birth>>

\* naturalSelection with a next population one organism short
NaturalSelection_OneShort ==
    /\ pc = "naturalSelection"
    /\ Len(pool) > 0
    /\ \E next \in [1 .. (Len(population) - 1) ->
                       Children(variant, pool, MutationRate)] :
           population' = next \o <<>>
    /\ pool' = <<>>
    /\ bestOrganism' = None
    /\ pc' = "loop"
    /\ UNCHANGED <<call, mem, variant, MutationRate, PoolSize, found, generation, err, birth>>

\* population = naturalSelection(pool, population, target) }
NaturalSelection ==
    /\ pc = "naturalSelection"
    /\ Len(pool) > 0
    /\ \E next \in [1 .. Len(population) ->
                       Children(variant, pool, MutationRate)] :
           population' = next \o <<>>
    /\ pool' = <<>>
    /\ bestOrganism' = None
    /\ pc' = "loop"
    /\ UNCHANGED <<call, mem, variant, MutationRate, PoolSize, found, generation, err, birth>>

\* rand.Intn(len(pool)) panics for an empty pool
NaturalSelectionPanic ==
    /\ pc = "naturalSelection"
    /\ Len(pool) = 0
    /\ pc' = "panic"
    /\ err' = "invalid argument to Intn"
    /\ UNCHANGED <<call, mem, variant, MutationRate, PoolSize, population, pool,
                   bestOrganism, found, generation, birth>>

\* the loop ends when found is set
Exit ==
    /\ pc = "loop"
    /\ found
    /\ pc' = "done"
    /\ UNCHANGED <<call, mem, variant, MutationRate, PoolSize, population, pool,
                   bestOrganism, found, generation, err, birth>>

Next ==
    \/ GetBest
    \/ CheckFound
    \/ CheckNotFound
    \/ CreatePoolString
    \/ CreatePoolImage
    \/ NaturalSelection
    \/ NaturalSelectionPanic
    \/ Exit

Spec == Init /\ [][Next]_vars

-----------------------------------------------------------------------------
(* One iteration of naturalSelection on its own: crossover, mutate and     *)
(* calcFitness applied to any pool of organisms, in any configuration.     *)

\* the organisms a population can hold: any genome of created or mutated
\* elements, with its fitness
Organisms(v) ==
    { createOrganism(v, g) :
          g \in [1 .. GenomeLen(v) -> InitElements(v) \cup MutateElements(v)] }

InitBreed ==
    /\ variant \in Variants
    /\ MutationRate \in 0 .. RateDen
    /\ PoolSize = 0
    /\ \E n \in 1 .. MaxPool : \E p \in [1 .. n -> Organisms(variant)] :
           /\ pool = p \o <<>>
           /\ population = p \o <<>>
    /\ bestOrganism = None
    /\ found = FALSE
    /\ generation = 1
    /\ pc = "naturalSelection"
    /\ err = ""
    /\ birth = None
    /\ mem = None
    /\ call = None

\* r1, r2 := ...; a := pool[r1]; b := pool[r2]; child := crossover(a, b);
\* child.mutate(); child.calcFitness(target)
Breed ==
    /\ pc = "naturalSelection"
    /\ birth = None
    /\ Len(pool) > 0
    /\ birth' \in Births(variant, pool, MutationRate)
    /\ UNCHANGED <<call, mem, variant, MutationRate, PoolSize, population, pool,
                   bestOrganism, found, generation, pc, err>>

NextBreed == Breed

SpecBreed == InitBreed /\ [][NextBreed]_vars

-----------------------------------------------------------------------------
(* Third specification: the string createPool alone, for a target of five  *)
(* bytes, the shortest length at which the float64 quotient of createPool  *)
(* differs from the exact one.                                             *)

\* target := []byte(...), five bytes long
targetLong == <<32, 32, 32, 32, 32>>

\* the organisms with a gene as long as targetLong, their fitness calculated
OrganismsLong ==
    { calcFitnessTo("string", NewOrganism("string", g), targetLong) :
          g \in [1 .. Len(targetLong) -> ByteSample("string")] }

\* main before createPool: bestDNA := getBest(population), its Gene not the
\* target
InitPool ==
    /\ variant = "string"
    /\ MutationRate \in 0 .. RateDen
    /\ PoolSize = 0
    /\ \E n \in 1 .. MaxPool : \E p \in [1 .. n -> OrganismsLong] :
           population = p \o <<>>
    /\ pool = <<>>
    /\ bestOrganism = getBest(population)
    /\ bestOrganism.Gene # targetLong
    /\ found = FALSE
    /\ generation = 1
    /\ pc = "createPool"
    /\ err = ""
    /\ birth = None
    /\ mem = None
    /\ call = None

\* maxFitness := bestDNA.Fitness; pool := createPool(population, target,
\* maxFitness)
CreatePoolLong ==
    /\ pc = "createPool"
    /\ \E nan \in IntOfNaN :
           pool' = poolString(population, targetLong, 1,
                              bestOrganism.Fitness, nan)
    /\ population' = [i \in 1 .. Len(population) |->
                          calcFitnessTo(variant, population[i], targetLong)] \o <<>>
    /\ pc' = "naturalSelection"
    /\ UNCHANGED <<call, mem, variant, MutationRate, PoolSize, bestOrganism, found,
                   generation, err, birth>>

NextPool == CreatePoolLong

SpecPool == InitPool /\ [][NextPool]_vars

-----------------------------------------------------------------------------
(* Fourth specification: naturalSelection over the memory behind the       *)
(* slices.  A slice is the address of its backing array: mem.arrays holds  *)
(* the arrays of genes, pixels and shapes and the images, mem.structs the  *)
(* arrays of DNA / Organism structs, whose slice and pointer fields are    *)
(* addresses into mem.arrays.                                              *)

\* the nil slice and the nil pointer
Nil == 0

\* the organism a struct stands for: its slices and its image read from the
\* arrays
Load(v, arrays, s) ==
    CASE v = "string" -> [Gene |-> arrays[s.Gene], Fitness |-> s.Fitness]
      [] v = "pixel"  -> [DNA |-> arrays[s.DNA], Fitness |-> s.Fitness]
      [] OTHER        -> [DNA |-> arrays[s.DNA], Shapes |-> arrays[s.Shapes],
                          Fitness |-> s.Fitness]

\* the organisms of the slice of structs at address at
LoadAll(v, m, at) ==
    [i \in 1 .. Len(m.structs[at]) |-> Load(v, m.arrays, m.structs[at][i])]

\* the addresses a struct holds
Addresses(v, s) ==
    CASE v = "string" -> {s.Gene}
      [] v = "pixel"  -> {s.DNA}
      [] OTHER        -> {s.DNA, s.Shapes}

\* the arrays one organism owns: its genome, and its image in the shape
\* programs
ArraysOf(v, o) ==
    IF v \in ShapeVariants THEN <<o.Shapes, o.DNA>> ELSE <<Genome(v, o)>>

\* the struct of organism o whose arrays start at address at
StructOf(v, o, at) ==
    CASE v = "string" -> [Gene |-> at, Fitness |-> o.Fitness]
      [] v = "pixel"  -> [DNA |-> at, Fitness |-> o.Fitness]
      [] OTHER        -> [DNA |-> at + 1, Shapes |-> at, Fitness |-> o.Fitness]

\* the zero value of DNA / Organism, as make([]DNA, n) fills the array
ZeroStruct(v) ==
    CASE v = "string" -> [Gene |-> Nil, Fitness |-> 0]
      [] v = "pixel"  -> [DNA |-> Nil, Fitness |-> 0]
      [] OTHER        -> [DNA |-> Nil, Shapes |-> Nil, Fitness |-> 0]

\* The memory at the call of naturalSelection(pool, population, target) for
\* the population p: every organism has arrays of its own; the pool is the
\* population slice itself ("pool = population") or an array of copies of
\* its structs (append(pool, population[i])), which share the arrays.
Memory(v, p, same) ==
    LET w == Len(ArraysOf(v, p[1]))
        structs == [i \in 1 .. Len(p) |-> StructOf(v, p[i], (i - 1) * w + 1)]
    IN  [arrays     |-> [k \in 1 .. (Len(p) * w) |->
                            ArraysOf(v, p[((k - 1) \div w) + 1])[((k - 1) % w) + 1]],
         structs    |-> IF same THEN <<structs>> ELSE <<structs, structs>>,
         population |-> 1,
         pool       |-> IF same THEN 1 ELSE 2,
         next       |-> Nil]

\* child := crossover(d1, d2): the child has a new array (make), and a new
\* image in the shape programs (draw)
crossoverAt(v, arrays, d1, d2, mid) ==
    LET g  == Genome(v, crossover(v, Load(v, arrays, d1), Load(v, arrays, d2), mid))
        at == Len(arrays) + 1
    IN  CASE v = "string" -> [arrays |-> Append(arrays, g),
                              child  |-> [Gene |-> at, Fitness |-> 0]]
          [] v = "pixel"  -> [arrays |-> Append(arrays, g),
                              child  |-> [DNA |-> at, Fitness |-> 0]]
          [] OTHER        -> [arrays |-> arrays \o <<g, draw(g)>>,
                              child  |-> [DNA |-> at + 1, Shapes |-> at,
                                          Fitness |-> 0]]

\* child.mutate(), o being the organism mutate makes of the child: the
\* elements are written into the array of the child; the shape programs point
\* DNA to a new image, and the image it pointed to, which nothing refers to
\* any more, is collected (its cell is left empty)
mutateAt(v, c, o) ==
    CASE v = "string" ->
             [c EXCEPT !.arrays = [c.arrays EXCEPT ![c.child.Gene] = o.Gene]]
      [] v = "pixel"  ->
             [c EXCEPT !.arrays = [c.arrays EXCEPT ![c.child.DNA] = o.DNA]]
      [] OTHER        ->
             [arrays |-> Append([c.arrays EXCEPT ![c.child.Shapes] = o.Shapes,
                                                 ![c.child.DNA] = <<>>],
                                o.DNA),
              child  |-> [c.child EXCEPT !.DNA = Len(c.arrays) + 1]]

\* child.calcFitness(target)
calcFitnessAt(v, c) ==
    [c EXCEPT !.child.Fitness = calcFitness(v, Load(v, c.arrays, c.child)).Fitness]

\* the child of one iteration once crossover has returned c, for every
\* outcome of the draws of mutate
Mutated(v, c, rate) ==
    { calcFitnessAt(v, mutateAt(v, c, o)) :
          o \in Mutations(v, Load(v, c.arrays, c.child), rate) }

\* child := crossover(a, b) for a := pool[r1], b := pool[r2], for every
\* outcome of the draws
Crossed(v, m) ==
    UNION { { crossoverAt(v, m.arrays, m.structs[m.pool][r1 + 1],
                          m.structs[m.pool][r2 + 1], mid) :
                  mid \in Intn(GenomeLen(v)) } :
            r1 \in Intn(Len(m.structs[m.pool])),
            r2 \in Intn(Len(m.structs[m.pool])) }

\* iteration i of the loop of naturalSelection, up to next[i] = child
Iteration(v, m, i, rate) ==
    UNION { { [m EXCEPT !.arrays = c.arrays, !.structs[m.next][i] = c.child] :
                  c \in Mutated(v, x, rate) } :
            x \in Crossed(v, m) }

RECURSIVE Iterations(_, _, _, _, _)
\* the loop "for i := 0; i < len(population); i++" from iteration i on, for
\* the memories ms the iterations before can leave
Iterations(v, ms, i, n, rate) ==
    IF i > n THEN ms
    ELSE Iterations(v, UNION { Iteration(v, m, i, rate) : m \in ms }, i + 1, n, rate)

\* naturalSelection with "next := population" for the new array
naturalSelectionAt_InPlace(v, m, rate) ==
    Iterations(v, {[m EXCEPT !.next = m.population]}, 1,
               Len(m.structs[m.population]), rate)

\* func naturalSelection(pool, population, target): next := make([]DNA,
\* len(population)) is a new array of structs, filled by the loop and returned
naturalSelectionAt(v, m, rate) ==
    LET n == Len(m.structs[m.population])
    IN  Iterations(v,
                   {[m EXCEPT !.structs = Append(m.structs,
                                                 [i \in 1 .. n |-> ZeroStruct(v)]),
                              !.next = Len(m.structs) + 1]},
                   1, n, rate)

\* main at the call of naturalSelection; population and pool keep the
\* organisms the call is given
InitFrame ==
    /\ variant \in Variants
    /\ MutationRate \in 0 .. RateDen
    /\ PoolSize = 0
    /\ \E n \in 1 .. MaxPool : \E p \in [1 .. n -> Organisms(variant)] :
           /\ population = p \o <<>>
           /\ pool = p \o <<>>
    /\ \E same \in BOOLEAN : mem = Memory(variant, population, same)
    /\ bestOrganism = None
    /\ found = FALSE
    /\ generation = 1
    /\ pc = "naturalSelection"
    /\ err = ""
    /\ birth = None
    /\ call = None

\* the call naturalSelection(pool, population, target); mem.next is the slice
\* it returns
Reproduce ==
    /\ pc = "naturalSelection"
    /\ mem.next = Nil
    /\ mem' \in naturalSelectionAt(variant, mem, MutationRate)
    /\ UNCHANGED <<call, variant, MutationRate, PoolSize, population, pool,
                   bestOrganism, found, generation, pc, err, birth>>

NextFrame == Reproduce

SpecFrame == InitFrame /\ [][NextFrame]_vars

-----------------------------------------------------------------------------
(* squareDifference and diff on their own: one call with arguments drawn   *)
(* from every pair of bytes, from the short images of the model and from   *)
(* images of the size the programs run with.                               *)

\* len(Pix) of the 67 x 100 RGBA image the programs are run with
ImageSize == 26800

\* the images of a call of diff: every image of the length of targetImage,
\* and the images of ImageSize bytes that hold one byte value throughout
DiffImages ==
    [1 .. Len(targetImage) -> ImageBytes]
        \cup {[i \in 1 .. ImageSize |-> v] : v \in ImageBytes}

\* the functions have the same text in the three image programs; the caller
\* (calcFitness) passes two images of the same size
InitDiff ==
    /\ variant = "pixel"
    /\ MutationRate = 0
    /\ PoolSize = 0
    /\ population = <<>>
    /\ pool = <<>>
    /\ bestOrganism = None
    /\ found = FALSE
    /\ generation = 0
    /\ err = ""
    /\ birth = None
    /\ mem = None
    /\ \/ /\ pc = "squareDifference"
          /\ \E x \in 0 .. 255 : \E y \in 0 .. 255 :
                 call = [fn |-> "squareDifference", x |-> x, y |-> y]
       \/ /\ pc = "diff"
          /\ \E a \in DiffImages : \E b \in DiffImages :
                 /\ Len(a) = Len(b)
                 /\ call = [fn |-> "diff", x |-> a, y |-> b]

\* the call squareDifference(x, y); the result is the uint64, limb by limb
SquareDifference ==
    /\ pc = "squareDifference"
    /\ call' = [fn |-> call.fn, x |-> call.x, y |-> call.y,
                result |-> squareDifference(call.x, call.y)]
    /\ pc' = "return"
    /\ UNCHANGED <<mem, variant, MutationRate, PoolSize, population, pool,
                   bestOrganism, found, generation, err, birth>>

\* the call diff(a, b)
Diff ==
    /\ pc = "diff"
    /\ call' = [fn |-> call.fn, x |-> call.x, y |-> call.y,
                result |-> diff(call.x, call.y)]
    /\ pc' = "return"
    /\ UNCHANGED <<mem, variant, MutationRate, PoolSize, population, pool,
                   bestOrganism, found, generation, err, birth>>

NextDiff == SquareDifference \/ Diff

SpecDiff == InitDiff /\ [][NextDiff]_vars

-----------------------------------------------------------------------------
(* Properties.                                                             *)

\* the configuration is one the programs are meant to run with: a mutation
\* rate strictly between 0 and 1 and, for the images, 0 < PoolSize < PopSize
ValidConfig ==
    /\ MutationRate \in 1 .. (RateDen - 1)
    /\ variant \in ImageVariants => PoolSize \in 1 .. (PopSize - 1)

\* some organism of the population has the target as its genome
HasTarget == \E i \in 1 .. Len(population) : population[i].Gene = targetString

\* in the population as createPool has sorted it, top[0] and top[PoolSize]
\* have the same fitness (image programs)
TopIsFlat == population[1].Fitness = population[PoolSize + 1].Fitness

\* C1: in the image programs, where a lower distance is better, the organism
\* getBest returned has the smallest Fitness of the population.
C1_GetBestIsMinimum ==
    (variant \in ImageVariants /\ ValidConfig /\ pc = "check") =>
        \A i \in 1 .. Len(population) :
            bestOrganism.Fitness <= population[i].Fitness

\* C2: in the string program createPool returns a pool with at least one
\* entry for every non-empty population, also when every fitness is 0.
C2_StringPoolNotEmpty ==
    (variant = "string" /\ ValidConfig /\ pc = "naturalSelection"
        /\ Len(population) > 0) =>
        Len(pool) > 0

\* C3: in the raw-pixel program, when the best and the (PoolSize+1)-th best
\* organism of the sorted population have equal fitness, createPool returns
\* the whole population as the pool.
C3_PixelFlatPoolIsPopulation ==
    (variant = "pixel" /\ ValidConfig /\ pc = "naturalSelection" /\ TopIsFlat) =>
        (pool = population /\ Len(pool) = PopSize)

\* C4: in the triangle and circle programs createPool returns a non-empty
\* pool whenever PopSize > PoolSize, whatever the fitness values: the pool is
\* the population, or it starts with a copy of the best organism.
C4_ShapePoolNotEmpty ==
    (variant \in ShapeVariants /\ pc = "naturalSelection"
        /\ PoolSize < Len(population)) =>
        /\ Len(pool) > 0
        /\ TopIsFlat => pool = population
        /\ ~TopIsFlat => pool[1] = population[1]

\* C4 witness: a pool built from the differences, the best organism in it
C4_Witness ==
    /\ variant \in ShapeVariants
    /\ pc = "naturalSelection"
    /\ ~TopIsFlat
    /\ pool # population
    /\ \E r \in 1 .. Len(pool) : pool[r] = population[1]

\* C5: in the triangle and circle programs, when top[PoolSize] and top[0] have
\* the same fitness after sorting, the pool createPool returns is exactly the
\* whole population, of length PopSize.
C5_FlatPoolIsPopulation ==
    (variant \in ShapeVariants /\ pc = "naturalSelection" /\ TopIsFlat) =>
        (pool = population /\ Len(pool) = PopSize)

\* C5 witness: all organisms have the same fitness, and fewer than all of them
\* are in top
C5_Witness ==
    /\ variant \in ShapeVariants
    /\ pc = "naturalSelection"
    /\ PoolSize >= 1
    /\ PoolSize + 1 < PopSize
    /\ \A i \in 1 .. Len(population) :
           population[i].Fitness = population[1].Fitness

\* C6: in the string program (mutation rate strictly between 0 and 1) the
\* loop ends only in a generation that contains the target, and no reachable
\* state is a crash or a state from which the loop cannot continue.
C6_StringRunContinuesToTarget ==
    (variant = "string" /\ ValidConfig) =>
        /\ pc # "panic"
        /\ pc = "done" => HasTarget

\* C7: the string program stops in exactly the first generation that holds an
\* organism equal to the target: the test of main succeeds if and only if the
\* population holds one, found is never set without one, and no pool is built
\* and no reproduction runs on a population that holds one.
C7_StopsAtFirstTarget ==
    variant = "string" =>
        /\ pc = "check" => (Converged(variant, bestOrganism) <=> HasTarget)
        /\ (found \/ pc = "done") => HasTarget
        /\ pc \in {"createPool", "naturalSelection"} => ~HasTarget

\* C7 witness: the loop has stopped in the second generation, on an organism
\* that is not the first one of the population
C7_Witness ==
    /\ variant = "string"
    /\ generation = 2
    /\ pc = "done"
    /\ population[1].Gene # targetString
    /\ HasTarget

\* C8 as stated: in the image programs the loop stops if and only if the
\* organism getBest selected has a distance at or below the limit.
C8_StopsAtOrBelowLimit ==
    (variant \in ImageVariants /\ ValidConfig) =>
        /\ found => bestOrganism.Fitness <= Limit(variant)
        /\ pc = "createPool" => ~(bestOrganism.Fitness <= Limit(variant))

\* C8 amended: in the image programs the loop stops if and only if the
\* organism getBest selected has a distance strictly below the limit; a
\* distance equal to the limit does not stop the loop.
C8_StopsBelowLimit ==
    variant \in ImageVariants =>
        /\ found => bestOrganism.Fitness < Limit(variant)
        /\ pc = "createPool" => ~(bestOrganism.Fitness < Limit(variant))

\* C8 witness: the selected organism is exactly at the limit and the loop goes on
C8_Witness ==
    /\ variant \in ImageVariants
    /\ pc = "createPool"
    /\ bestOrganism.Fitness = Limit(variant)

\* the fitness function applied to the genome of o
FitnessOfGenome(v, o) ==
    CASE v = "string" -> Score(o.Gene, targetString, 1)
      [] v = "pixel"  -> diff(o.DNA, targetImage)
      [] OTHER        -> diff(draw(o.Shapes), targetImage)

\* C9: in every population each organism's stored Fitness is the fitness
\* function applied to its current genome and the target, and in the shape
\* programs its image is draw(genome).
C9_FitnessIsCurrent ==
    \A i \in 1 .. Len(population) :
        /\ population[i].Fitness = FitnessOfGenome(variant, population[i])
        /\ variant \in ShapeVariants =>
               population[i].DNA = draw(population[i].Shapes)

\* C9 witness: in a shape program, a population that naturalSelection has
\* produced with mutations, holding children of different fitness
C9_Witness ==
    /\ variant \in ShapeVariants
    /\ ValidConfig
    /\ generation = 2
    /\ pc = "check"
    /\ \E i, j \in 1 .. Len(population) :
           population[i].Fitness # population[j].Fitness

C11_FirstMidFromFirst ==
    birth # None =>
        \A i \in 0 .. (Len(Genome(variant, birth.crossed)) - 1) :
            Genome(variant, birth.crossed)[i + 1] =
                IF i < birth.mid THEN Genome(variant, birth.a)[i + 1]
                ELSE Genome(variant, birth.b)[i + 1]

\* C12: the genome length never changes: crossover returns a child as long as
\* both parents, mutate keeps the length, and every organism of every
\* generation has a genome of the target's length (element count).
C12_GenomeLength ==
    /\ \A i \in 1 .. Len(population) :
           Len(Genome(variant, population[i])) = GenomeLen(variant)
    /\ pc = "naturalSelection" =>
           \A x \in Crossings(variant, pool) :
               /\ Len(Genome(variant, x.crossed)) = Len(Genome(variant, x.a))
               /\ Len(Genome(variant, x.crossed)) = Len(Genome(variant, x.b))
               /\ \A m \in Mutations(variant, x.crossed, MutationRate) :
                      Len(Genome(variant, m)) = Len(Genome(variant, x.crossed))

\* C12 witness: a population of children of crossover and mutate, bred from
\* two different parents
C12_Witness ==
    /\ generation = 2
    /\ pc = "naturalSelection"
    /\ ValidConfig
    /\ \E r1, r2 \in 1 .. Len(pool) :
           Genome(variant, pool[r1]) # Genome(variant, pool[r2])

\* C13: mutate replaces the element at a position exactly when the draw for
\* that position is below MutationRate: at rate 0 the child keeps the genome
\* crossover returned, at rate 1 every position holds a freshly generated
\* element.
C13_MutateByRate ==
    birth # None =>
        /\ \A i \in 1 .. Len(Genome(variant, birth.crossed)) :
               Genome(variant, birth.child)[i] =
                   IF birth.draws[i] < MutationRate THEN birth.fresh[i]
                   ELSE Genome(variant, birth.crossed)[i]
        /\ MutationRate = 0 =>
               Genome(variant, birth.child) = Genome(variant, birth.crossed)
        /\ MutationRate = RateDen =>
               \A i \in 1 .. Len(Genome(variant, birth.child)) :
                   /\ Genome(variant, birth.child)[i] = birth.fresh[i]
                   /\ Genome(variant, birth.child)[i] \in MutateElements(variant)

\* C13 witness: at rate 1 a child that differs from the child of crossover at
\* every position
C13_Witness ==
    /\ birth # None
    /\ MutationRate = RateDen
    /\ \A i \in 1 .. Len(Genome(variant, birth.crossed)) :
           Genome(variant, birth.child)[i] # Genome(variant, birth.crossed)[i]

\* number of entries of the pool that equal o
CountIn(pl, o) == Cardinality({r \in 1 .. Len(pl) : pl[r] = o})

\* number of organisms of the population that equal o
Mult(o) == Cardinality({i \in 1 .. Len(population) : population[i] = o})

RECURSIVE SumOver(_, _)
\* f[1] + ... + f[n]
SumOver(f, n) == IF n = 0 THEN 0 ELSE f[n] + SumOver(f, n - 1)

\* the multiplier of the fitness difference in the image createPool
Multiplier == IF variant = "pixel" THEN 10 ELSE 1

\* the copies the organism at position i of the sorted population (rank
\* i - 1) is to have in the pool in the top-K differential policy
RankCopies(i) ==
    IF i <= PoolSize
    THEN (population[PoolSize + 1].Fitness - population[i].Fitness) * Multiplier
    ELSE 0

CopiesOf(i) == CountIn(pool, population[i]) \div Mult(population[i])

\* C16: the pool weights are monotone in fitness: of two organisms of the
\* population given to createPool, the better one (higher score in the string
\* program, lower distance among the top PoolSize in the image programs) has
\* at least as many copies in the pool as the worse one.
C16_MonotoneWeights ==
    pc = "naturalSelection" =>
        IF variant = "string"
        THEN \A i, j \in 1 .. Len(population) :
                 population[i].Fitness >= population[j].Fitness =>
                     CopiesOf(i) >= CopiesOf(j)
        ELSE \A i, j \in 1 .. PoolSize :
                 population[i].Fitness <= population[j].Fitness =>
                     CopiesOf(i) >= CopiesOf(j)

\* C16 witness: image program, two organisms of the top with different
\* distances, the better one with more copies
C16_Witness ==
    /\ pc = "naturalSelection"
    /\ variant \in ImageVariants
    /\ \E i, j \in 1 .. PoolSize :
           /\ population[i].Fitness < population[j].Fitness
           /\ CopiesOf(i) > CopiesOf(j)
           /\ CopiesOf(j) > 0

\* C17: the population size is constant: the initial population has PopSize
\* organisms and every population naturalSelection returns has as many
\* organisms as the one it replaces, whatever the size of the pool.
C17_PopulationSize == Len(population) = PopSize

\* C17 witness: a population returned by naturalSelection, with a pool of
\* another size built from it
C17_Witness ==
    /\ generation = 2
    /\ pc = "naturalSelection"
    /\ Len(pool) > 0
    /\ Len(pool) # Len(population)
    /\ Len(population) = PopSize

\* positions where the gene equals the target
Matches(gene) == {k \in 1 .. Len(gene) : gene[k] = targetString[k]}

\* C19: in the string program calcFitness yields (number of positions where
\* the genome equals the target) / length, a value in [0.0, 1.0] (Fitness is
\* the numerator here); it is 1.0 if and only if the genome equals the target
\* at every position, so the fitness of the target itself is 1.0, the best
\* score.
C19_StringFitness ==
    variant = "string" =>
        /\ \A i \in 1 .. Len(population) :
               LET o == population[i]
               IN  /\ o.Fitness = Cardinality(Matches(o.Gene))
                   /\ o.Fitness \in 0 .. Len(o.Gene)
                   /\ o.Fitness = Len(o.Gene) <=> o.Gene = targetString
        /\ createOrganism("string", targetString).Fitness = Len(targetString)

\* C19 witness: a population of children with the target (fitness 1.0), and
\* an organism with a fitness strictly between 0.0 and 1.0
C19_Witness ==
    /\ variant = "string"
    /\ generation = 2
    /\ pc = "check"
    /\ \E i, j \in 1 .. Len(population) :
           /\ population[i].Gene = targetString
           /\ population[i].Fitness = Len(targetString)
           /\ population[j].Fitness \in 1 .. (Len(targetString) - 1)

RECURSIVE SquaredDistance(_, _)
\* sum of the squares of the byte differences to the target up to position k
SquaredDistance(img, k) ==
    IF k = 0 THEN 0
    ELSE (img[k] - targetImage[k]) * (img[k] - targetImage[k])
             + SquaredDistance(img, k - 1)

\* r is the integer square root of the squared distance of img to the target
IsDistance(r, img) ==
    /\ r >= 0
    /\ r * r <= SquaredDistance(img, Len(targetImage))
    /\ (r + 1) * (r + 1) > SquaredDistance(img, Len(targetImage))

\* C20: in the image programs calcFitness sets Fitness to diff(image, target),
\* the integer square root of the sum of the squared byte differences; an
\* organism whose image equals the target has Fitness 0 (not 1), and 0 is the
\* smallest fitness.
C20_ImageFitness ==
    variant \in ImageVariants =>
        \A i \in 1 .. Len(population) :
            /\ IsDistance(population[i].Fitness, population[i].DNA)
            /\ population[i].DNA = targetImage => population[i].Fitness = 0
            /\ population[i].Fitness >= 0

\* C20 witness: a population of children with an organism whose image is the
\* target, at Fitness 0, and one with another image
C20_Witness ==
    /\ variant \in ImageVariants
    /\ generation = 2
    /\ pc = "check"
    /\ \E i, j \in 1 .. Len(population) :
           /\ population[i].DNA = targetImage
           /\ population[i].Fitness = 0
           /\ population[j].Fitness > 0

\* C15: in the proportional policy of the string program, with a best fitness
\* above 0, each organism has exactly floor(100 * fitness / bestFitness)
\* copies in the pool: 100 for the best fitness, none for fitness 0, and the
\* pool has between 100 and 100 * PopSize entries.
C15_FloorCopies ==
    (pc = "naturalSelection" /\ variant = "string" /\ bestOrganism.Fitness > 0) =>
        /\ \A k \in 1 .. Len(population) :
               CountIn(pool, population[k]) =
                   Mult(population[k])
                       * ((100 * population[k].Fitness) \div bestOrganism.Fitness)
        /\ Len(pool) \in 100 .. (100 * Len(population))

\* C15 as amended: the number of copies is the float64 value
\* int((fitness / bestFitness) * 100), which is floor(100 * fitness /
\* bestFitness) or one less, one less only where 100 * fitness / bestFitness
\* is a whole number; it is 100 for the best fitness and 0 for fitness 0, and
\* the pool has between 100 and 100 * PopSize entries.
C15_FloorOrOneLess ==
    (pc = "naturalSelection" /\ variant = "string" /\ bestOrganism.Fitness > 0) =>
        /\ \A k \in 1 .. Len(population) :
               LET f == population[k].Fitness
                   m == bestOrganism.Fitness
               IN  /\ CountIn(pool, population[k]) =
                          Mult(population[k]) * CopiesOf(k)
                   /\ CopiesOf(k) \in {((100 * f) \div m) - 1, (100 * f) \div m}
                   /\ CopiesOf(k) # (100 * f) \div m => (100 * f) % m = 0
                   /\ f = m => CopiesOf(k) = 100
                   /\ f = 0 => CopiesOf(k) = 0
        /\ Len(pool) \in 100 .. (100 * Len(population))

\* C15 witness: a pool with 100 copies of the best organism and one copy less
\* than the exact quotient of another
C15_Witness ==
    /\ pc = "naturalSelection"
    /\ variant = "string"
    /\ bestOrganism.Fitness > 0
    /\ \E j, k \in 1 .. Len(population) :
           /\ population[j] = bestOrganism
           /\ CopiesOf(j) = 100
           /\ CopiesOf(k) =
                  ((100 * population[k].Fitness) \div bestOrganism.Fitness) - 1

\* C18: reproduction is total replacement without in-place update: every slot
\* of the next population holds a newly created child, and producing the
\* children (crossover, mutate, calcFitness on the child) changes neither the
\* genome nor the fitness of any organism of the pool or of the previous
\* population, also when the pool is the population itself.
C18_ParentsUntouched ==
    (mem # None /\ mem.next # Nil) =>
        /\ LoadAll(variant, mem, mem.pool) = pool
        /\ LoadAll(variant, mem, mem.population) = population
        /\ mem.next \notin {mem.pool, mem.population}
        /\ \A i \in 1 .. Len(mem.structs[mem.next]) :
               /\ Nil \notin Addresses(variant, mem.structs[mem.next][i])
               /\ LET child == Load(variant, mem.arrays, mem.structs[mem.next][i])
                   IN  child = calcFitness(variant, child)
               /\ \A at \in {mem.pool, mem.population} :
                      \A k \in 1 .. Len(mem.structs[at]) :
                          Addresses(variant, mem.structs[mem.next][i])
                              \cap Addresses(variant, mem.structs[at][k]) = {}

\* C18 witness: the pool is the population itself, and naturalSelection has
\* returned two children that equal none of its organisms
C18_Witness ==
    /\ mem # None
    /\ mem.next # Nil
    /\ mem.pool = mem.population
    /\ Len(mem.structs[mem.next]) >= 2
    /\ \A i \in 1 .. Len(mem.structs[mem.next]) :
           \A k \in 1 .. Len(population) :
               Genome(variant, Load(variant, mem.arrays, mem.structs[mem.next][i]))
                   # Genome(variant, population[k])

\* C21: the controller runs getBest, then the convergence check, and only if
\* not converged createPool followed by naturalSelection, then getBest again:
\* a pool is built only when every organism of the generation has its
\* fitness, a generation is complete before the next begins, and once the
\* check succeeds no pool is built, no child is produced and the population
\* never changes again.
C21_ControllerOrder ==
    [][ /\ pc = "loop" => pc' = (IF found THEN "done" ELSE "check")
        /\ pc = "check" =>
               \/ pc' = "loop" /\ found'
               \/ pc' = "createPool" /\ ~found'
        /\ pc = "createPool" => pc' \in {"naturalSelection", "panic"}
        /\ pc = "naturalSelection" => pc' \in {"loop", "panic"}
        /\ pc \notin {"done", "panic"}
        /\ generation' # generation =>
               /\ pc = "loop"
               /\ generation' = generation + 1
               /\ pool = <<>>
        /\ pool' # pool =>
               \/ /\ pc = "createPool"
                  /\ ~found
                  /\ \A i \in 1 .. Len(population) :
                         population[i].Fitness =
                             FitnessOfGenome(variant, population[i])
               \/ pc = "naturalSelection" /\ pool' = <<>>
        /\ population' # population => pc \in {"createPool", "naturalSelection"}
        /\ found => /\ found'
                    /\ population' = population
                    /\ pool' = pool
                    /\ pc' = "done"
      ]_vars

\* C21 witness: a run that has built a pool, reproduced, and stopped on the
\* check of the second generation
C21_Witness ==
    /\ ValidConfig
    /\ generation = 2
    /\ found
    /\ pc = "done"

\* the configuration is invalid: PoolSize not in 0 < PoolSize < PopSize
\* (image programs), or MutationRate not in [0, 1)
InvalidConfig ==
    \/ variant \in ImageVariants /\ ~(0 < PoolSize /\ PoolSize < PopSize)
    \/ ~(0 <= MutationRate /\ MutationRate < RateDen)

\* C22: an invalid configuration is a fatal error that prevents the run from
\* starting: no initial population is created and no generation is evaluated
\* with it.
C22_InvalidConfigNeverRuns ==
    InvalidConfig => (generation = 0 /\ Len(population) = 0)

\* C23 as stated: in the image programs createPool completes for every
\* PoolSize with 0 < PoolSize < population size and fails with an error out
\* of range, returning no pool, exactly when PoolSize is larger than the
\* population size.
C23_FailsAboveLen ==
    variant \in ImageVariants =>
        /\ pc = "naturalSelection" => ~(PoolSize > Len(population))
        /\ err = "slice bounds out of range" =>
               (PoolSize > Len(population) /\ pc = "panic" /\ pool = <<>>)

\* C23 amended: createPool completes for every PoolSize below the population
\* size and fails, returning no pool, exactly when PoolSize is at least the
\* population size (population[0 : PoolSize+1] is out of range).
C23_FailsFromLen ==
    variant \in ImageVariants =>
        /\ pc = "naturalSelection" => ~(PoolSize >= Len(population))
        /\ err = "slice bounds out of range" =>
               (PoolSize >= Len(population) /\ pc = "panic" /\ pool = <<>>)

\* C23 witness: createPool has completed with PoolSize = population size - 1
C23_Witness ==
    /\ variant \in ImageVariants
    /\ pc = "naturalSelection"
    /\ PoolSize = Len(population) - 1
    /\ Len(pool) > 0

\* the elements the organisms of p have at position i
ElementsAt(p, i) == {Genome(variant, p[k])[i] : k \in 1 .. Len(p)}

\* C24: with MutationRate = 0 every element of every organism of a generation
\* is, at its position, an element of an organism of the generation before
\* (hence of the initial population); so if the target's value at some
\* position is missing there, no later generation holds the target.
C24_NoNewElements ==
    [][ MutationRate = 0 =>
            /\ \A i \in 1 .. GenomeLen(variant) :
                   ElementsAt(population', i) \subseteq ElementsAt(population, i)
            /\ (variant \in {"string", "pixel"}
                  /\ \E i \in 1 .. GenomeLen(variant) :
                         target(variant)[i] \notin ElementsAt(population, i)) =>
                   \A k \in 1 .. Len(population') :
                       Genome(variant, population'[k]) # target(variant)
      ]_vars

\* C24 witness: at rate 0, a second generation bred from two different
\* genomes, with the target's first value missing at the first position
C24_Witness ==
    /\ MutationRate = 0
    /\ variant \in {"string", "pixel"}
    /\ generation = 2
    /\ pc = "check"
    /\ target(variant)[1] \notin ElementsAt(population, 1)
    /\ \E j, k \in 1 .. Len(population) :
           Genome(variant, population[j]) # Genome(variant, population[k])

\* the organisms of p with Fitness f, in their order
WithFitness(p, f) == SelectSeq(p, LAMBDA o : o.Fitness = f)

\* C26: the pool is a view of the population: every entry of the pool
\* createPool returns equals an organism of the population passed in, and
\* createPool neither adds, removes nor alters organisms: in the image
\* programs the population after the call is the stable sort by ascending
\* fitness of the population before, in the string program it is unchanged.
C26_PoolIsView ==
    [][ (pc = "createPool" /\ pc' = "naturalSelection") =>
            /\ \A r \in 1 .. Len(pool') :
                   \E k \in 1 .. Len(population) : pool'[r] = population[k]
            /\ Len(population') = Len(population)
            /\ IF variant = "string" THEN population' = population
               ELSE /\ \A i \in 1 .. (Len(population') - 1) :
                           population'[i].Fitness <= population'[i + 1].Fitness
                    /\ \A k \in 1 .. Len(population) :
                           WithFitness(population', population[k].Fitness) =
                               WithFitness(population, population[k].Fitness)
      ]_vars

\* C26 witness: an image program after createPool, with a pool, and two
\* different organisms of the same fitness in the sorted population
C26_Witness ==
    /\ variant \in ImageVariants
    /\ pc = "naturalSelection"
    /\ Len(pool) > 0
    /\ \E i, j \in 1 .. Len(population) :
           /\ population[i].Fitness = population[j].Fitness
           /\ population[i] # population[j]

\* C28: the values mutate can write at a position are the values the initial
\* generation can produce at that position.
C28_MutateValuesAreInitValues == MutateElements(variant) = InitElements(variant)

-----------------------------------------------------------------------------
\* C25: for two images of 26,800 bytes, diff returns 0 when the images are
\* the same and 26,800 when every pair of corresponding bytes differs by
\* 255, and never more than 26,800.
Opposites(a, b) ==
    \A i \in 1 .. Len(a) : a[i] - b[i] = 255 \/ b[i] - a[i] = 255

C25_OppositesDifferByImageSize ==
    (pc = "return" /\ call.fn = "diff" /\ Len(call.x) = ImageSize) =>
        /\ call.x = call.y => call.result = 0
        /\ Opposites(call.x, call.y) => call.result = ImageSize
        /\ call.result <= ImageSize

-----------------------------------------------------------------------------
\* the value of a uint64 whose upper five limbs are 0
ValueOfLow(u) == u[0] + 256 * u[1] + 65536 * u[2]

\* C27: for all bytes x and y squareDifference(x, y) is (x - y)^2, a value in
\* 0..65025, also when x < y and the uint64 subtraction wraps around; and
\* diff(a, b) = diff(b, a) for images of the same size.
C27_SquareDifferenceWraps ==
    pc = "return" =>
        /\ call.fn = "squareDifference" =>
               /\ \A i \in 3 .. 7 : call.result[i] = 0
               /\ ValueOfLow(call.result) = (call.x - call.y) * (call.x - call.y)
               /\ ValueOfLow(call.result) \in 0 .. 65025
        /\ call.fn = "diff" => call.result = diff(call.y, call.x)

\* a call whose subtraction wrapped around (x < y) has returned the largest
\* square
C27_Witness ==
    /\ pc = "return"
    /\ call.fn = "squareDifference"
    /\ call.x < call.y
    /\ ValueOfLow(call.result) = 65025

=============================================================================
